---- MODULE Spec2Model ----
(***************************************************************************)
(* Model of the "Estado de Clientes" Streamlit application (src/code.py):  *)
(* the row search (find_rows), the batch planner (update_steps), the       *)
(* cached snapshot read (get_data) and the script runs of main().          *)
(***************************************************************************)
EXTENDS Integers, Sequences, FiniteSets, TLC

VARIABLES
    \* arguments and result of the last update_steps call
    rows, steps_updates, consultoria_value, comentarios_value, now,
    cells_to_update,
    \* arguments and outcome of the last find_rows call
    selected_cuenta, selected_sectores, data, found,
    \* the spreadsheet, the st.cache_data entry of get_data, st.session_state
    \* and the API calls of the current interaction
    sheet, cache, session_state, calls,
    \* "run": a script run is due (page load or st.rerun()); "idle": the
    \* script has ended and waits for the operator; "call", "built" and
    \* "returned" are the positions of a single function call
    pc

planVars == << rows, steps_updates, consultoria_value, comentarios_value, now,
               cells_to_update >>
findVars == << selected_cuenta, selected_sectores, data, found >>
sessVars == << sheet, cache, session_state, calls >>

vars == << planVars, findVars, sessVars, pc >>

(***************************************************************************)
(* Bounds of the model.                                                    *)
(***************************************************************************)
\* largest number of target rows handed to one update_steps call
MaxRows == 2
\* largest number of step updates handed to one update_steps call
MaxSteps == 2
\* largest number of data rows (rows below the header) of a snapshot
MaxDataRows == 3
\* largest number of batch writes the sheet accepts in a run of the model
MaxSaves == 2
\* largest number of get_all_values calls followed in one interaction
MaxReads == 3

(***************************************************************************)
(* Values.                                                                 *)
(***************************************************************************)
\* the placeholder shown by the select boxes for an empty cell
Vacio == "Vacío"

\* get_chile_timestamp(): the current time formatted '%d-%m-%y %H:%M'
Timestamps == { "04-11-26 09:15" }

\* what a step's select box can hold: the options of step_options and the
\* displayed value of the sheet cell (the placeholder for an empty cell)
StepValues == { "Sí", "No", "Programado", "No aplica", "Sí (DropControl)",
                "Sí (CDTEC IF)", Vacio }

\* what the Consultoría select box can hold
ConsultoriaValues == { "No", Vacio }

\* free texts of the observation and comment text areas
ObsTexts == { "", Vacio }
CommentTexts == { "ready", Vacio }

(***************************************************************************)
(* Column layout.                                                          *)
(***************************************************************************)
consultoria_col == 3
comentarios_col == 25
ultima_actualizacion_col == 26
NumSteps == 7

\* mutant: the date of a process shares its column with the next field
StepLayoutOverlapping(k) ==
    [ step_col |-> 3 * k + 1, obs_col |-> 3 * k + 2, date_col |-> 3 * k + 4 ]

\* the columns of process k (step1 .. step7 of the form)
StepLayout(k) ==
    [ step_col |-> 3 * k + 1, obs_col |-> 3 * k + 2, date_col |-> 3 * k + 3 ]

(***************************************************************************)
(* update_steps: the list of cell writes.                                  *)
(***************************************************************************)
Cell(row, col, value) == [ row |-> row, col |-> col, value |-> value ]

\* mutant: the placeholder is written as chosen
ResolveKeepsSentinel(v) == v

\* "" if v == "Vacío" else v
Resolve(v) == IF v = Vacio THEN "" ELSE v

\* mutant: a scheduled step is not stamped
AdvanceValuesNoProgramado == { "Sí", "Sí (DropControl)", "Sí (CDTEC IF)" }

\* the values that stamp the step's date
AdvanceValues == { "Sí", "Programado", "Sí (DropControl)", "Sí (CDTEC IF)" }

\* step.get("obs_col") is not None
HasObs(step) == "obs_col" \in DOMAIN step

\* mutant: every write of the loop goes to the first target row
ColumnCellsFirstRow(rs, col, value) ==
    [ i \in 1 .. Len(rs) |-> Cell(rs[1], col, value) ]

\* one loop over the rows writing the same value to one column
ColumnCells(rs, col, value) ==
    [ i \in 1 .. Len(rs) |-> Cell(rs[i], col, value) ]

\* mutant: the observation text goes through the placeholder mapping
StepRowCellsObsResolved(row, step, ts) ==
    LET update_value == Resolve(step.value)
    IN  << Cell(row, step.step_col, update_value) >>
        \o (IF HasObs(step)
              THEN << Cell(row, step.obs_col, Resolve(step.obs_value)) >>
              ELSE << >>)
        \o (IF update_value \in AdvanceValues
              THEN << Cell(row, step.date_col, ts) >>
              ELSE << Cell(row, step.date_col, "") >>)

\* the body of the inner loop: the writes of one step for one row
StepRowCells(row, step, ts) ==
    LET update_value == Resolve(step.value)
    IN  << Cell(row, step.step_col, update_value) >>
        \o (IF HasObs(step)
              THEN << Cell(row, step.obs_col, step.obs_value) >>
              ELSE << >>)
        \o (IF update_value \in AdvanceValues
              THEN << Cell(row, step.date_col, ts) >>
              ELSE << Cell(row, step.date_col, "") >>)

RECURSIVE StepCells(_, _, _)
\* for row in rows: the writes of one step, row after row
StepCells(rs, step, ts) ==
    IF rs = << >> THEN << >>
    ELSE StepRowCells(Head(rs), step, ts) \o StepCells(Tail(rs), step, ts)

RECURSIVE AllStepCells(_, _, _)
\* for step in steps_updates: ...
AllStepCells(rs, steps, ts) ==
    IF steps = << >> THEN << >>
    ELSE StepCells(rs, Head(steps), ts) \o AllStepCells(rs, Tail(steps), ts)

RECURSIVE RowStepCells(_, _, _)
\* the writes of all steps for one row
RowStepCells(row, steps, ts) ==
    IF steps = << >> THEN << >>
    ELSE StepRowCells(row, Head(steps), ts) \o RowStepCells(row, Tail(steps), ts)

RECURSIVE BuildCellsByRow(_, _, _, _, _)
\* mutant: one loop over the rows emitting all writes of a row together
BuildCellsByRow(rs, steps, consultoria, comentarios, ts) ==
    IF rs = << >> THEN << >>
    ELSE << Cell(Head(rs), consultoria_col, Resolve(consultoria)) >>
         \o RowStepCells(Head(rs), steps, ts)
         \o << Cell(Head(rs), comentarios_col, comentarios),
               Cell(Head(rs), ultima_actualizacion_col, ts) >>
         \o BuildCellsByRow(Tail(rs), steps, consultoria, comentarios, ts)

\* cells_to_update as update_steps builds it
BuildCells(rs, steps, consultoria, comentarios, ts) ==
    ColumnCells(rs, consultoria_col, Resolve(consultoria))
    \o AllStepCells(rs, steps, ts)
    \o ColumnCells(rs, comentarios_col, comentarios)
    \o ColumnCells(rs, ultima_actualizacion_col, ts)

(***************************************************************************)
(* Inputs of update_steps.                                                 *)
(***************************************************************************)
\* the sheet rows a search can find (row 1 is the header)
RowNums == { 2, 4, 7 }

RECURSIVE SortedSeq(_)
\* the elements of a set of row numbers in increasing order
SortedSeq(S) ==
    IF S = {} THEN << >>
    ELSE LET m == CHOOSE x \in S : \A y \in S : x <= y
         IN  << m >> \o SortedSeq(S \ {m})

\* the row lists a search can store: non-empty, in sheet order
RowLists ==
    { SortedSeq(S) : S \in { T \in SUBSET RowNums : T # {} /\ Cardinality(T) <= MaxRows } }

\* the dictionaries main() builds for process k, with or without obs_col
StepInputs(k) ==
    { [ step_col |-> StepLayout(k).step_col, date_col |-> StepLayout(k).date_col,
        value |-> v ] : v \in StepValues }
    \cup
    { [ step_col |-> StepLayout(k).step_col, obs_col |-> StepLayout(k).obs_col,
        date_col |-> StepLayout(k).date_col, value |-> v, obs_value |-> o ] :
        v \in StepValues, o \in ObsTexts }

RECURSIVE StepLists(_)
\* the lists of the first n processes
StepLists(n) ==
    IF n = 0 THEN { << >> }
    ELSE { Append(s, u) : s \in StepLists(n - 1), u \in StepInputs(n) }

AllStepLists == UNION { StepLists(n) : n \in 0 .. MaxSteps }

(***************************************************************************)
(* find_rows: the rows of an account, optionally of some of its sectors.   *)
(***************************************************************************)
\* accounts (column A) and irrigation sectors (column B) of the sheet
Cuentas == { "Acme", "Borde" }
Sectores == { "S1", "S2" }

\* the elements of a Python list
Elems(list) == { list[i] : i \in 1 .. Len(list) }

\* row[0] == selected_cuenta
MatchCuenta(row, cuenta) == row[1] = cuenta

\* mutant: an empty sector selection matches no row
MatchSectorNoEmptyCase(row, sectores) == row[2] \in Elems(sectores)

\* len(selected_sectores) == 0 or row[1] in selected_sectores
MatchSector(row, sectores) == Len(sectores) = 0 \/ row[2] \in Elems(sectores)

\* mutant: the header offset is forgotten
RowNumberNoHeader(i) == i + 1

\* the sheet row of the i-th element of data[1:], i counted from 0
RowNumber(i) == i + 2

\* whether evaluating the condition on a row raises IndexError: row[0] needs
\* one cell; row[1] needs two and is read only when row[0] is the account
\* and the sector list is not empty (and, or evaluate left to right)
RowRaises(row, cuenta, sectores) ==
    \/ Len(row) < 1
    \/ (row[1] = cuenta /\ Len(sectores) # 0 /\ Len(row) < 2)

RECURSIVE FindRowsFrom(_, _, _, _, _)
\* the loop of find_rows from element i of data[1:] on, acc the rows so far
FindRowsFrom(cuenta, sectores, d, i, acc) ==
    IF i + 2 > Len(d) THEN [ raised |-> FALSE, rows |-> acc ]
    ELSE LET row == d[i + 2]
         IN  IF RowRaises(row, cuenta, sectores) THEN [ raised |-> TRUE, rows |-> << >> ]
             ELSE IF MatchCuenta(row, cuenta) /\ MatchSector(row, sectores)
               THEN FindRowsFrom(cuenta, sectores, d, i + 1,
                                 Append(acc, RowNumber(i)))
               ELSE FindRowsFrom(cuenta, sectores, d, i + 1, acc)

\* find_rows(selected_cuenta, selected_sectores, data): the list returned,
\* or raised when an index is out of range
FindRows(cuenta, sectores, d) == FindRowsFrom(cuenta, sectores, d, 0, << >>)

\* the first two cells of a row of the snapshot
KeyCells == { << c, s >> : c \in Cuentas, s \in Sectores }

\* the header row: its own titles, or cells that look like data
HeaderRows == { << "Cuenta", "Sector" >>, << "Acme", "S1" >> }

RECURSIVE RowSeqs(_)
\* the lists of n data rows
RowSeqs(n) ==
    IF n = 0 THEN { << >> }
    ELSE { Append(s, r) : s \in RowSeqs(n - 1), r \in KeyCells }

\* sheet.get_all_values(): the header and up to MaxDataRows data rows
Snapshots ==
    { << h >> \o s : h \in HeaderRows, s \in UNION { RowSeqs(n) : n \in 0 .. MaxDataRows } }

\* the sector lists of the session: the checked sectors in any order
SectorLists ==
    { << >> } \cup { << s >> : s \in Sectores }
    \cup { p \in { << s, t >> : s \in Sectores, t \in Sectores } : p[1] # p[2] }

(***************************************************************************)
(* The sheet, the cache and the session.                                   *)
(***************************************************************************)
\* the first entry of the account select box
Placeholder == "Seleccione una cuenta"

\* a sheet row: the account, the sector and empty cells up to column Z
SheetRow(c, s) == << c, s >> \o [ i \in 1 .. ultima_actualizacion_col - 2 |-> "" ]

\* the sheet before any save: the header and three sectors of two accounts
SampleSheet ==
    << SheetRow("Cuenta", "Sector"), SheetRow("Acme", "S1"),
       SheetRow("Acme", "S2"), SheetRow("Borde", "S1") >>

\* st.session_state.rows is None or a non-empty list: None is written << >>
NoRows == << >>

\* no "data" key in st.session_state, the value None, an empty cache
Absent == [ kind |-> "absent" ]
NoneData == [ kind |-> "None" ]
EmptyCache == [ kind |-> "empty" ]

\* the outcomes of a call of the Sheets API: success, an error whose text
\* holds "quota" or "limit", any other error
ApiOutcomes == { "ok", "quota", "error" }

NoCalls == [ reads |-> 0, writes |-> 0, write_error |-> "" ]

NoSession ==
    /\ sheet = [ rev |-> 0, vals |-> << >> ]
    /\ cache = EmptyCache
    /\ session_state = [ data |-> Absent, rows |-> NoRows,
                         selected_sectores |-> << >>, update_successful |-> FALSE,
                         cuenta |-> Placeholder ]
    /\ calls = NoCalls

NoFindCall ==
    /\ selected_cuenta = ""
    /\ selected_sectores = << >>
    /\ data = << >>
    /\ found = [ raised |-> FALSE, rows |-> << >> ]

NoPlanCall ==
    /\ rows = << >>
    /\ steps_updates = << >>
    /\ consultoria_value = ""
    /\ comentarios_value = ""
    /\ now = ""
    /\ cells_to_update = << >>

InitFind ==
    /\ selected_cuenta \in Cuentas
    /\ selected_sectores \in SectorLists
    /\ data \in Snapshots
    /\ found = [ raised |-> FALSE, rows |-> << >> ]
    /\ NoPlanCall
    /\ NoSession
    /\ pc = "call"

FindRowsCall ==
    /\ pc = "call"
    /\ found' = FindRows(selected_cuenta, selected_sectores, data)
    /\ pc' = "returned"
    /\ UNCHANGED << selected_cuenta, selected_sectores, data >>
    /\ UNCHANGED << planVars, sessVars >>

NextFind == FindRowsCall

SpecFind == InitFind /\ [][NextFind]_vars

(***************************************************************************)
(* find_rows on a list of lists whose rows may lack the key cells.         *)
(***************************************************************************)
\* a data row: no cell, the account cell alone, or both key cells
RaggedRows == { << >> } \cup { << c >> : c \in Cuentas } \cup KeyCells

RECURSIVE RaggedRowSeqs(_)
\* the lists of n such rows
RaggedRowSeqs(n) ==
    IF n = 0 THEN { << >> }
    ELSE { Append(s, r) : s \in RaggedRowSeqs(n - 1), r \in RaggedRows }

\* the data argument: a header, never inspected, and up to MaxDataRows rows
RaggedSnapshots ==
    { << h >> \o s : h \in { << "Cuenta", "Sector" >>, << "Cuenta" >> },
                     s \in UNION { RaggedRowSeqs(n) : n \in 0 .. MaxDataRows } }

InitFindShort ==
    /\ selected_cuenta \in Cuentas
    /\ selected_sectores \in SectorLists
    /\ data \in RaggedSnapshots
    /\ found = [ raised |-> FALSE, rows |-> << >> ]
    /\ NoPlanCall
    /\ NoSession
    /\ pc = "call"

SpecFindShort == InitFindShort /\ [][NextFind]_vars

(***************************************************************************)
(* Specification of the planner: a call with any inputs.                   *)
(***************************************************************************)
InitPlan ==
    /\ rows \in RowLists
    /\ steps_updates = << >>
    /\ consultoria_value \in ConsultoriaValues
    /\ comentarios_value \in CommentTexts
    /\ now \in Timestamps
    /\ cells_to_update = << >>
    /\ NoFindCall
    /\ NoSession
    /\ pc = "call"

\* update_steps(rows, steps_updates, consultoria_value, comentarios_value)
\* up to the batch it hands to the write API
UpdateStepsBuild ==
    /\ pc = "call"
    /\ \E steps \in AllStepLists :
         /\ steps_updates' = steps
         /\ cells_to_update' = BuildCells(rows, steps, consultoria_value,
                                          comentarios_value, now)
    /\ pc' = "built"
    /\ UNCHANGED << rows, consultoria_value, comentarios_value, now >>
    /\ UNCHANGED << findVars, sessVars >>

NextPlan == UpdateStepsBuild

SpecPlan == InitPlan /\ [][NextPlan]_vars

(***************************************************************************)
(* The script runs of main().                                              *)
(***************************************************************************)
\* sorted(set(...)): the order of the sector names
SectorOrder == << "S1", "S2" >>
SortedSectors(S) == LET In(x) == x \in S IN SelectSeq(SectorOrder, In)

\* [row[1] for row in data[1:] if row[0] == selected_cuenta]
UniqueSectores(vals, cuenta) ==
    { vals[r][2] : r \in { q \in 2 .. Len(vals) : vals[q][1] = cuenta } }

\* set(row[0] for row in data[1:])
UniqueCuentas(vals) == { vals[r][1] : r \in 2 .. Len(vals) }

\* list.remove(x) on a list without duplicates
Remove(list, x) == LET Keep(y) == y # x IN SelectSeq(list, Keep)

\* handle_quota_error(e): whether it ends the run with st.rerun()
HandleQuotaError(outcome) == outcome = "quota"

\* get_data() under @st.cache_data: the cached value when there is one;
\* otherwise sheet.get_all_values(): its result is cached and returned, a
\* quota error reruns the script (nothing is cached), any other error makes
\* get_data return None, and that return value is cached
GetData(ch, sh, outcome) ==
    IF ch.kind # "empty"
      THEN [ ret |-> ch, cache |-> ch, reads |-> 0, rerun |-> FALSE ]
    ELSE IF outcome = "ok"
      THEN LET v == [ kind |-> "value", rev |-> sh.rev, vals |-> sh.vals ]
           IN  [ ret |-> v, cache |-> v, reads |-> 1, rerun |-> FALSE ]
    ELSE IF HandleQuotaError(outcome)
      THEN [ ret |-> NoneData, cache |-> ch, reads |-> 1, rerun |-> TRUE ]
    ELSE [ ret |-> NoneData, cache |-> NoneData, reads |-> 1, rerun |-> FALSE ]

\* mutant: the load is repeated while the session holds None
LoadDataRetriesNone(ss, ch, sh, outcome) ==
    IF ss.data.kind \in { "absent", "None" } \/ ss.update_successful
      THEN LET got == GetData(ch, sh, outcome)
           IN  IF got.rerun
                 THEN [ ss |-> ss, cache |-> got.cache, reads |-> got.reads,
                        halt |-> "rerun" ]
                 ELSE [ ss |-> [ ss EXCEPT !.data = got.ret,
                                           !.update_successful = FALSE ],
                        cache |-> got.cache, reads |-> got.reads,
                        halt |-> IF got.ret.kind = "None" THEN "stop" ELSE "go" ]
      ELSE [ ss |-> ss, cache |-> ch, reads |-> 0, halt |-> "go" ]

\* main(), "Cargar datos": load when the session has no data or a save
\* succeeded; halt is "rerun" (st.rerun()), "stop" (st.stop()) or "go"
LoadData(ss, ch, sh, outcome) ==
    IF ss.data.kind = "absent" \/ ss.update_successful
      THEN LET got == GetData(ch, sh, outcome)
           IN  IF got.rerun
                 THEN [ ss |-> ss, cache |-> got.cache, reads |-> got.reads,
                        halt |-> "rerun" ]
                 ELSE [ ss |-> [ ss EXCEPT !.data = got.ret,
                                           !.update_successful = FALSE ],
                        cache |-> got.cache, reads |-> got.reads,
                        halt |-> IF got.ret.kind = "None" THEN "stop" ELSE "go" ]
      ELSE [ ss |-> ss, cache |-> ch, reads |-> 0,
             halt |-> IF ss.data.kind = "None" THEN "stop" ELSE "go" ]

\* main(), the sector check boxes and the two buttons around them
SelectSectors(ss, ev) ==
    IF ss.cuenta # Placeholder
      THEN LET unique == SortedSectors(UniqueSectores(ss.data.vals, ss.cuenta))
               list == ss.selected_sectores
               synced == IF ev.kind = "toggle"
                           THEN IF ev.sector \in Elems(list)
                                  THEN Remove(list, ev.sector)
                                  ELSE Append(list, ev.sector)
                           ELSE list
           IN  IF ev.kind = "select_all"
                 THEN [ ss |-> [ ss EXCEPT !.selected_sectores = unique ],
                        halt |-> "rerun" ]
               ELSE IF ev.kind = "deselect_all"
                 THEN [ ss |-> [ ss EXCEPT !.selected_sectores = << >> ],
                        halt |-> "rerun" ]
               ELSE [ ss |-> [ ss EXCEPT !.selected_sectores = synced ],
                      halt |-> "go" ]
      ELSE [ ss |-> [ ss EXCEPT !.selected_sectores = << >> ], halt |-> "go" ]

\* main(), the "Buscar Registro" button
Search(ss, ev) ==
    IF ev.kind # "buscar" THEN ss
    ELSE IF ss.cuenta = Placeholder THEN [ ss EXCEPT !.rows = NoRows ]
    ELSE LET f == FindRows(ss.cuenta, ss.selected_sectores, ss.data.vals)
         IN  IF f.raised THEN ss ELSE [ ss EXCEPT !.rows = f.rows ]

\* the widget value and the on_change callback (reset_search) of an event
Callbacks(ss, ev) ==
    IF ev.kind = "cuenta"
      THEN [ ss EXCEPT !.cuenta = ev.cuenta, !.rows = NoRows ]
      ELSE ss

\* one run of main() up to the form: the session, the cache, the number of
\* sheet reads and where the run ends
Script(ss, ch, sh, ev, outcome) ==
    LET l == LoadData(Callbacks(ss, ev), ch, sh, outcome)
        sel == SelectSectors(l.ss, ev)
    IN  IF l.halt # "go"
          THEN [ ss |-> l.ss, cache |-> l.cache, reads |-> l.reads,
                 pc |-> IF l.halt = "rerun" THEN "run" ELSE "idle",
                 form |-> FALSE ]
        ELSE IF sel.halt = "rerun"
          THEN [ ss |-> sel.ss, cache |-> l.cache, reads |-> l.reads,
                 pc |-> "run", form |-> FALSE ]
        ELSE LET done == Search(sel.ss, ev)
             IN  [ ss |-> done, cache |-> l.cache, reads |-> l.reads,
                   pc |-> "idle", form |-> done.rows # NoRows ]

\* a run of main() that submits no form; first: the event opens a new
\* interaction of the operator
ScriptRun(ev, first) ==
    \E outcome \in ApiOutcomes :
      LET base == IF first THEN NoCalls ELSE calls
          r == Script(session_state, cache, sheet, ev, outcome)
      IN  /\ outcome = "quota" => base.reads + 1 < MaxReads
          /\ session_state' = r.ss
          /\ cache' = r.cache
          /\ calls' = [ base EXCEPT !.reads = @ + r.reads ]
          /\ pc' = r.pc
          /\ UNCHANGED << sheet, planVars, findVars >>

\* whether the last run drew the widgets below the data check
Loaded == session_state.data.kind = "value"

\* the run that a page load or st.rerun() starts
Rerun ==
    /\ pc = "run"
    /\ ScriptRun([ kind |-> "none" ], FALSE)

\* the operator reruns the page
UserRerun ==
    /\ pc = "idle"
    /\ ScriptRun([ kind |-> "none" ], TRUE)

\* the operator picks another entry of the account select box
ChangeCuenta(c) ==
    /\ pc = "idle" /\ Loaded
    /\ c \in { Placeholder } \cup UniqueCuentas(session_state.data.vals)
    /\ c # session_state.cuenta
    /\ ScriptRun([ kind |-> "cuenta", cuenta |-> c ], TRUE)

\* the operator ticks or unticks the check box of a sector
ToggleSector(s) ==
    /\ pc = "idle" /\ Loaded
    /\ session_state.cuenta # Placeholder
    /\ s \in UniqueSectores(session_state.data.vals, session_state.cuenta)
    /\ ScriptRun([ kind |-> "toggle", sector |-> s ], TRUE)

SelectAll ==
    /\ pc = "idle" /\ Loaded
    /\ session_state.cuenta # Placeholder
    /\ ScriptRun([ kind |-> "select_all" ], TRUE)

DeselectAll ==
    /\ pc = "idle" /\ Loaded
    /\ session_state.cuenta # Placeholder
    /\ ScriptRun([ kind |-> "deselect_all" ], TRUE)

Buscar ==
    /\ pc = "idle" /\ Loaded
    /\ ScriptRun([ kind |-> "buscar" ], TRUE)

\* the entry of get_data leaves the cache after ttl=60 seconds
CacheExpire ==
    /\ pc \in { "run", "idle" }
    /\ cache.kind # "empty"
    /\ cache' = EmptyCache
    /\ UNCHANGED << sheet, session_state, calls, pc, planVars, findVars >>

(***************************************************************************)
(* The save: the form, update_steps and the batch write.                   *)
(***************************************************************************)
\* what the operator can submit: the classification, the value and the
\* observation of each of the seven processes, the general comment
FormInputs ==
    { [ consultoria |-> "No",
        values |-> << "Sí", "Programado", "No", "Sí (DropControl)", "No aplica",
                      Vacio, "Sí" >>,
        obs |-> << "ok", "", "", "", "", "", "" >>,
        comentarios |-> "ready" ],
      [ consultoria |-> Vacio,
        values |-> << Vacio, "No", "Sí", "Programado", "Sí", "No aplica", Vacio >>,
        obs |-> << "", "", "visita", "", "", "", "" >>,
        comentarios |-> "" ] }

\* steps_updates as the form builds it
StepsOf(form) ==
    [ k \in 1 .. NumSteps |->
        [ step_col |-> StepLayout(k).step_col, obs_col |-> StepLayout(k).obs_col,
          date_col |-> StepLayout(k).date_col, value |-> form.values[k],
          obs_value |-> form.obs[k] ] ]

RECURSIVE ApplyBatch(_, _)
\* sheet.update_cells(cells): the writes applied in list order
ApplyBatch(vals, cells) ==
    IF cells = << >> THEN vals
    ELSE LET c == Head(cells)
         IN  ApplyBatch([ vals EXCEPT ![c.row][c.col] = c.value ], Tail(cells))

\* mutant: the cache is not cleared after a save
KeepCache(ch) == ch

\* st.cache_data.clear()
ClearCache(ch) == EmptyCache

\* mutant: the cache is cleared whether or not the write went through
WriteBatchClearsFirst(sh, ch, cells, outcome) ==
    IF outcome = "ok"
      THEN [ sheet |-> [ rev |-> sh.rev + 1, vals |-> ApplyBatch(sh.vals, cells) ],
             cache |-> ClearCache(ch), ret |-> "True" ]
    ELSE IF HandleQuotaError(outcome)
      THEN [ sheet |-> sh, cache |-> ClearCache(ch), ret |-> "rerun" ]
    ELSE [ sheet |-> sh, cache |-> ClearCache(ch), ret |-> "False" ]

\* the try block of update_steps: ret is "True", "False" or "rerun"
WriteBatch(sh, ch, cells, outcome) ==
    IF outcome = "ok"
      THEN [ sheet |-> [ rev |-> sh.rev + 1, vals |-> ApplyBatch(sh.vals, cells) ],
             cache |-> ClearCache(ch), ret |-> "True" ]
    ELSE IF HandleQuotaError(outcome)
      THEN [ sheet |-> sh, cache |-> ch, ret |-> "rerun" ]
    ELSE [ sheet |-> sh, cache |-> ch, ret |-> "False" ]

\* the operator submits the form ("Guardar Cambios")
Guardar(form) ==
    /\ pc = "idle" /\ Loaded
    /\ sheet.rev < MaxSaves
    /\ LET r == Script(session_state, cache, sheet, [ kind |-> "guardar" ], "ok")
       IN  /\ r.form
           /\ \E ts \in Timestamps, outcome \in ApiOutcomes :
                LET cells == BuildCells(r.ss.rows, StepsOf(form), form.consultoria,
                                        form.comentarios, ts)
                    w == WriteBatch(sheet, r.cache, cells, outcome)
                IN  /\ rows' = r.ss.rows
                    /\ steps_updates' = StepsOf(form)
                    /\ consultoria_value' = form.consultoria
                    /\ comentarios_value' = form.comentarios
                    /\ now' = ts
                    /\ cells_to_update' = cells
                    /\ sheet' = w.sheet
                    /\ cache' = w.cache
                    /\ session_state' =
                         [ r.ss EXCEPT !.update_successful = (w.ret = "True") ]
                    /\ pc' = IF w.ret = "False" THEN "idle" ELSE "run"
                    /\ calls' = [ reads |-> r.reads, writes |-> 1,
                                  write_error |-> IF outcome = "ok" THEN "" ELSE outcome ]
    /\ UNCHANGED findVars

Init ==
    /\ sheet = [ rev |-> 0, vals |-> SampleSheet ]
    /\ cache = EmptyCache
    /\ session_state = [ data |-> Absent, rows |-> NoRows,
                         selected_sectores |-> << >>, update_successful |-> FALSE,
                         cuenta |-> Placeholder ]
    /\ calls = NoCalls
    /\ NoPlanCall
    /\ NoFindCall
    /\ pc = "run"

Next ==
    \/ Rerun
    \/ UserRerun
    \/ \E c \in Cuentas \cup { Placeholder } : ChangeCuenta(c)
    \/ \E s \in Sectores : ToggleSector(s)
    \/ SelectAll
    \/ DeselectAll
    \/ Buscar
    \/ \E form \in FormInputs : Guardar(form)
    \/ CacheExpire

Spec == Init /\ [][Next]_vars

(***************************************************************************)
(* Properties of the write list (checked under SpecPlan).                  *)
(***************************************************************************)
Built == pc = "built"

\* the positions of the writes to cell (row, col)
WritesTo(row, col) ==
    { i \in 1 .. Len(cells_to_update) :
        cells_to_update[i].row = row /\ cells_to_update[i].col = col }

\* the positions of the writes to a row
WritesToRow(row) ==
    { i \in 1 .. Len(cells_to_update) : cells_to_update[i].row = row }

RowSet == { rows[i] : i \in 1 .. Len(rows) }
StepIdx == 1 .. Len(steps_updates)

RECURSIVE ExpectedStepWrites(_, _)
\* the writes one row is due for the steps from position i on: per step its
\* value, its observation (when it has the column) and its date
ExpectedStepWrites(row, i) ==
    IF i > Len(steps_updates) THEN << >>
    ELSE LET step == steps_updates[i]
             v == IF step.value = "Vacío" THEN "" ELSE step.value
         IN  << [ row |-> row, col |-> step.step_col, value |-> v ] >>
             \o (IF "obs_col" \in DOMAIN step
                   THEN << [ row |-> row, col |-> step.obs_col,
                             value |-> step.obs_value ] >>
                   ELSE << >>)
             \o << [ row |-> row, col |-> step.date_col,
                     value |-> IF v \in { "Sí", "Programado", "Sí (DropControl)",
                                          "Sí (CDTEC IF)" }
                                 THEN now ELSE "" ] >>
             \o ExpectedStepWrites(row, i + 1)

\* the six kinds of writes of one row in the order of the claim
ExpectedRowWrites(row) ==
    << [ row |-> row, col |-> 3,
         value |-> IF consultoria_value = "Vacío" THEN "" ELSE consultoria_value ] >>
    \o ExpectedStepWrites(row, 1)
    \o << [ row |-> row, col |-> 25, value |-> comentarios_value ],
          [ row |-> row, col |-> 26, value |-> now ] >>

RECURSIVE ExpectedByRow(_)
\* the list grouped per target row: all writes of a row, then the next row
ExpectedByRow(i) ==
    IF i > Len(rows) THEN << >>
    ELSE ExpectedRowWrites(rows[i]) \o ExpectedByRow(i + 1)

\* the writes of one row, in list order
RowProjection(row) ==
    LET OfRow(c) == c.row = row IN SelectSeq(cells_to_update, OfRow)

\* the field a column belongs to, numbered in the order update_steps visits
\* them: 0 the classification, i the i-th step, then comment, last-modified
FieldOf(col) ==
    IF col = 3 THEN 0
    ELSE IF col = 25 THEN Len(steps_updates) + 1
    ELSE IF col = 26 THEN Len(steps_updates) + 2
    ELSE CHOOSE i \in StepIdx :
           col \in { steps_updates[i].step_col, steps_updates[i].date_col,
                     steps_updates[i].step_col + 1 }

\* C1 (as claimed): the write list is grouped per target row: for each row in
\* turn, contiguously, its classification write, its step writes, its comment
\* write and its last-modified write; all writes of one row precede all
\* writes of the next row.
C1_GroupedPerRow ==
    Built => cells_to_update = ExpectedByRow(1)

\* C1 (amended): the write list is grouped per field, not per row: the
\* classification writes of all rows, then step by step the writes of all
\* rows, then the comment writes of all rows, then the last-modified writes
\* of all rows, the rows in list order inside each group; the writes of one
\* row, taken in list order, are its classification write, per step the
\* value, observation (when the step has the column) and date writes, its
\* comment write and its last-modified write.
C1_GroupedPerField ==
    Built =>
      /\ \A r \in RowSet : RowProjection(r) = ExpectedRowWrites(r)
      /\ \A i \in 1 .. Len(cells_to_update) - 1 :
           LET f == FieldOf(cells_to_update[i].col)
               g == FieldOf(cells_to_update[i + 1].col)
           IN  /\ f <= g
               /\ f = g => cells_to_update[i].row <= cells_to_update[i + 1].row

\* two target rows, two steps, one of them with an observation column
C1_Witness ==
    /\ Built
    /\ Len(rows) >= 2
    /\ Len(steps_updates) >= 2
    /\ "obs_col" \in DOMAIN steps_updates[1]
    /\ Len(cells_to_update) > Len(rows)

\* C2: for every step and target row exactly one write goes to the step's
\* date column, and it carries the timestamp now if and only if the resolved
\* step value is "Sí", "Programado", "Sí (DropControl)" or "Sí (CDTEC IF)";
\* for every other value it carries the empty string.
C2_DateStamp ==
    Built =>
      \A i \in StepIdx, r \in RowSet :
        LET step == steps_updates[i]
            v == IF step.value = "Vacío" THEN "" ELSE step.value
            stamped == v \in { "Sí", "Programado", "Sí (DropControl)",
                               "Sí (CDTEC IF)" }
        IN  /\ Cardinality(WritesTo(r, step.date_col)) = 1
            /\ \A w \in WritesTo(r, step.date_col) :
                 /\ (cells_to_update[w].value = now) <=> stamped
                 /\ ~stamped => cells_to_update[w].value = ""

\* a call with a "Programado" step (stamped) and a "No" step (cleared)
C2_Witness ==
    /\ Built
    /\ \E i, j \in StepIdx :
         /\ steps_updates[i].value = "Programado"
         /\ steps_updates[j].value = "No"
         /\ \E w \in WritesTo(rows[1], steps_updates[i].date_col) :
              cells_to_update[w].value = now
         /\ \E w \in WritesTo(rows[1], steps_updates[j].date_col) :
              cells_to_update[w].value = ""

\* C3: no write to the classification column or to a step's value column
\* has the value "Vacío": a chosen "Vacío" is written as the empty string
\* and every other chosen value is written unchanged.
C3_SentinelNeverWritten ==
    Built =>
      /\ \A r \in RowSet :
           /\ WritesTo(r, 3) # {}
           /\ \A w \in WritesTo(r, 3) :
                /\ cells_to_update[w].value # "Vacío"
                /\ cells_to_update[w].value =
                     (IF consultoria_value = "Vacío" THEN "" ELSE consultoria_value)
      /\ \A i \in StepIdx, r \in RowSet :
           /\ WritesTo(r, steps_updates[i].step_col) # {}
           /\ \A w \in WritesTo(r, steps_updates[i].step_col) :
                /\ cells_to_update[w].value # "Vacío"
                /\ cells_to_update[w].value =
                     (IF steps_updates[i].value = "Vacío" THEN ""
                      ELSE steps_updates[i].value)

\* the placeholder chosen for the classification and for a step, next to a
\* step with a real value
C3_Witness ==
    /\ Built
    /\ consultoria_value = "Vacío"
    /\ \E i, j \in StepIdx :
         /\ steps_updates[i].value = "Vacío"
         /\ steps_updates[j].value = "Sí (DropControl)"
    /\ \E w \in WritesTo(rows[1], 3) : cells_to_update[w].value = ""

\* C4: a step with an observation column gets, for each target row, exactly
\* one write of its observation text to that column, the text unchanged
\* ("" stays "", "Vacío" stays "Vacío"); a step without the column gets two
\* writes per row (value and date) and none to an observation column.
C4_ObservationVerbatim ==
    Built =>
      \A i \in StepIdx, r \in RowSet :
        LET step == steps_updates[i]
            own == { w \in WritesToRow(r) :
                       cells_to_update[w].col \in step.step_col .. step.date_col }
        IN  IF "obs_col" \in DOMAIN step
              THEN /\ Cardinality(WritesTo(r, step.obs_col)) = 1
                   /\ \A w \in WritesTo(r, step.obs_col) :
                        cells_to_update[w].value = step.obs_value
              ELSE /\ Cardinality(own) = 2
                   /\ \A w \in own :
                        cells_to_update[w].col \in { step.step_col, step.date_col }

\* an observation "Vacío" written as such, next to a step without the column
C4_Witness ==
    /\ Built
    /\ \E i, j \in StepIdx :
         /\ "obs_col" \in DOMAIN steps_updates[i]
         /\ steps_updates[i].obs_value = "Vacío"
         /\ \E w \in WritesTo(rows[1], steps_updates[i].obs_col) :
              cells_to_update[w].value = "Vacío"
         /\ "obs_col" \notin DOMAIN steps_updates[j]

\* the (column, value) pairs written to a row
PairsOfRow(row) ==
    { << cells_to_update[w].col, cells_to_update[w].value >> : w \in WritesToRow(row) }

RECURSIVE WritesPerRow(_)
\* 3 + the sum over the steps from position i on of 2, or 3 with an
\* observation column
WritesPerRow(i) ==
    IF i > Len(steps_updates) THEN 3
    ELSE (IF "obs_col" \in DOMAIN steps_updates[i] THEN 3 ELSE 2) + WritesPerRow(i + 1)

\* C5: any two target rows of one call are written the same set of
\* (column, value) pairs, and each row receives exactly 3 + the sum over the
\* steps of 2 (3 with an observation column) writes.
C5_RowsIdentical ==
    Built =>
      /\ \A r1, r2 \in RowSet : PairsOfRow(r1) = PairsOfRow(r2)
      /\ \A r \in RowSet : Cardinality(WritesToRow(r)) = WritesPerRow(1)

\* three target rows and steps with and without an observation column
C5_Witness ==
    /\ Built
    /\ Len(rows) >= 2
    /\ \E i, j \in StepIdx :
         /\ "obs_col" \in DOMAIN steps_updates[i]
         /\ "obs_col" \notin DOMAIN steps_updates[j]
    /\ Cardinality(WritesToRow(rows[2])) = 8
    /\ Len(cells_to_update) = 8 * Len(rows)
    /\ PairsOfRow(rows[1]) = PairsOfRow(rows[2])

(***************************************************************************)
(* Properties of find_rows (checked under SpecFind).                       *)
(***************************************************************************)
Returned == pc = "returned"

\* C6: find_rows returns the row number of a data row if and only if the
\* row's first column equals the selected account and the selected sector
\* list is empty or holds the row's second column.
C6_ExactMatches ==
    Returned =>
      /\ ~found.raised
      /\ \A r \in 2 .. Len(data) :
           (r \in Elems(found.rows)) <=>
             /\ data[r][1] = selected_cuenta
             /\ \/ selected_sectores = << >>
                \/ \E k \in 1 .. Len(selected_sectores) :
                     selected_sectores[k] = data[r][2]

\* a call that returns one row and leaves out a row of the same account in
\* another sector and a row of another account
C6_Witness ==
    /\ Returned
    /\ Len(selected_sectores) = 1
    /\ Len(found.rows) = 1
    /\ \E r \in 2 .. Len(data) :
         /\ data[r][1] = selected_cuenta
         /\ data[r][2] # selected_sectores[1]
         /\ r \notin Elems(found.rows)
    /\ \E r \in 2 .. Len(data) : data[r][1] # selected_cuenta

\* C7: the list returned is strictly increasing, each element r has
\* 2 <= r <= the number of rows of the snapshot and names the snapshot row
\* of the selected account at index r - 1; row 1, the header, is never
\* returned, whatever its cells.
C7_SheetOrder ==
    Returned =>
      /\ \A i \in 1 .. Len(found.rows) - 1 : found.rows[i] < found.rows[i + 1]
      /\ \A i \in 1 .. Len(found.rows) :
           /\ 2 <= found.rows[i]
           /\ found.rows[i] <= Len(data)
           /\ data[found.rows[i]][1] = selected_cuenta
      /\ 1 \notin Elems(found.rows)

\* a header whose cells equal the selected account and sector, with two
\* data rows returned below it
C7_Witness ==
    /\ Returned
    /\ data[1][1] = selected_cuenta
    /\ data[1][2] \in Elems(selected_sectores)
    /\ Len(found.rows) >= 2
    /\ found.rows[1] >= 2

(***************************************************************************)
(* Properties of the session (checked under Spec).                         *)
(***************************************************************************)
\* C8: after a batch write succeeds the cache is empty and a script run is
\* due that reloads the snapshot; whenever the update-successful flag is
\* false again, the snapshot the session holds was fetched after every
\* successful save, so no run renders or searches with an older one.
C8_ReloadAfterSave ==
    /\ session_state.update_successful => pc = "run" /\ cache.kind = "empty"
    /\ (~session_state.update_successful /\ session_state.data.kind = "value")
         => session_state.data.rev = sheet.rev

\* the render after a successful save: one write, then one read of the
\* sheet, and the session holds the saved timestamp of row 2
C8_Witness ==
    /\ pc = "idle"
    /\ sheet.rev >= 1
    /\ calls.writes = 1 /\ calls.write_error = "" /\ calls.reads = 1
    /\ ~session_state.update_successful
    /\ session_state.data.kind = "value"
    /\ session_state.data.rev = sheet.rev
    /\ session_state.data.vals[2][26] \in Timestamps

\* C9: when the batch write fails with a quota or limit error, the same
\* batch is submitted to the write API once more before the script gives
\* the page back to the operator.
C9_WriteRetried ==
    (pc = "idle" /\ calls.write_error = "quota") => calls.writes >= 2

\* C10: within one interaction of the operator the sheet is read at most
\* twice: a snapshot read that fails with a quota error is retried once.
C10_AtMostTwoReads ==
    calls.reads <= 2

\* the session holds a snapshot whose cache entry has left the cache: more
\* than the ttl of 60 seconds have passed since its fetch
SnapshotExpired ==
    /\ session_state.data.kind = "value"
    /\ ~session_state.update_successful
    /\ cache.kind = "empty"

\* a step that runs the script for an event of the operator
OperatorRun ==
    /\ pc = "idle"
    /\ << session_state, calls, planVars, sheet, pc >>'
         # << session_state, calls, planVars, sheet, pc >>

\* C11: a snapshot older than the TTL of 60 seconds is never rendered as
\* it is: a script run that finds the session's snapshot expired reads the
\* sheet again before it renders.
C11_RefreshAfterTTL ==
    [][ (SnapshotExpired /\ OperatorRun) => calls'.reads >= 1 ]_vars

(***************************************************************************)
(* Properties of find_rows on short rows (checked under SpecFindShort).    *)
(***************************************************************************)
\* the row has the cells the condition inspects for these sectors
LongEnough(row, sectores) ==
    Len(row) >= 1 /\ (Len(sectores) = 0 \/ Len(row) >= 2)

\* the rows of the snapshot that are long enough and match, in sheet order
MatchesSkippingShort ==
    SortedSeq({ r \in 2 .. Len(data) :
                  /\ LongEnough(data[r], selected_sectores)
                  /\ MatchCuenta(data[r], selected_cuenta)
                  /\ MatchSector(data[r], selected_sectores) })

\* C12: find_rows never raises on a snapshot with data rows shorter than
\* the columns it inspects: such rows are skipped as non-matching and the
\* other rows are still evaluated.
C12_ShortRowsSkipped ==
    Returned => (~found.raised /\ found.rows = MatchesSkippingShort)

\* a step in which the form is submitted and the batch write fails with an
\* error that handle_quota_error does not take for a rate limit
FailedSave ==
    /\ \E form \in FormInputs : Guardar(form)
    /\ calls'.write_error = "error"

\* C13: when the batch write fails with an error that is not a rate-limit
\* error, update_steps returns False after exactly one write call (no
\* rerun is started), the cache is not cleared, the update-successful flag
\* stays false, the sheet, the session's snapshot and its selected rows are
\* unchanged, and the form is drawn again with the same rows.
C13_FailedSaveLeavesSession ==
    [][ FailedSave =>
          /\ calls'.writes = 1
          /\ pc' = "idle"
          /\ cache' = cache
          /\ ~session_state.update_successful
          /\ ~session_state'.update_successful
          /\ session_state'.data = session_state.data
          /\ session_state'.rows = session_state.rows
          /\ session_state'.rows # NoRows
          /\ sheet' = sheet ]_vars

\* a failed save of found rows while the cache still holds the snapshot
C13_Witness ==
    /\ pc = "idle"
    /\ calls.write_error = "error"
    /\ calls.writes = 1
    /\ cache.kind = "value"
    /\ session_state.rows # NoRows
    /\ cells_to_update # << >>
    /\ sheet.rev = 0

\* a step in which the form is submitted
SaveSubmitted == \E form \in FormInputs : Guardar(form)

\* C14: whenever a save is submitted, the rows it writes are exactly
\* find_rows(selected account, selected sectors, session snapshot) for the
\* selection at the moment of the save.
C14_SavedRowsCurrent ==
    [][ SaveSubmitted =>
          rows' = FindRows(session_state'.cuenta,
                           session_state'.selected_sectores,
                           session_state'.data.vals).rows ]_vars

\* the session stores None as its snapshot
DataIsNone == session_state.data.kind = "None"

\* C15: after a snapshot read failed with an error that is not a rate-limit
\* error (the session stores None), every later run of the same session
\* stops at the data check: get_data is not called again (no read), no
\* search and no batch write is made, and the snapshot stays None. The
\* only other step of such a session is the expiry of the cache entry.
C15_NoneSticks ==
    [][ DataIsNone =>
          /\ session_state'.data = session_state.data
          /\ session_state'.rows = session_state.rows
          /\ pc' = "idle"
          /\ UNCHANGED << sheet, planVars, findVars >>
          /\ \/ calls'.reads = 0 /\ calls'.writes = 0
             \/ cache' = EmptyCache /\ UNCHANGED << session_state, calls >> ]_vars

\* a run that stopped at the data check of a session holding None, after
\* the failed read has left the cache
C15_Witness ==
    /\ DataIsNone
    /\ pc = "idle"
    /\ calls = NoCalls
    /\ cache.kind = "empty"

\* the list in the opposite order
Reverse(seq) == [ i \in 1 .. Len(seq) |-> seq[Len(seq) + 1 - i] ]

\* the columns a save writes in each of its rows
SavedColumns == { cells_to_update[i].col : i \in 1 .. Len(cells_to_update) }

\* C16: every batch submitted from the form holds at most one write per
\* (row, column) cell: the target rows are pairwise distinct and the
\* columns 3, 4 to 24, 25 and 26 are pairwise distinct (24 writes per row),
\* so the sheet after the batch does not depend on the order of the writes.
C16_OneWritePerCell ==
    /\ \A i, j \in 1 .. Len(rows) : i # j => rows[i] # rows[j]
    /\ \A i, j \in 1 .. Len(cells_to_update) :
         i # j => << cells_to_update[i].row, cells_to_update[i].col >>
                    # << cells_to_update[j].row, cells_to_update[j].col >>
    /\ Len(cells_to_update) = 24 * Len(rows)
    /\ cells_to_update # << >> =>
         SavedColumns = consultoria_col .. ultima_actualizacion_col
    /\ ApplyBatch(SampleSheet, cells_to_update)
         = ApplyBatch(SampleSheet, Reverse(cells_to_update))

\* a save of two rows: 48 writes
C16_Witness ==
    /\ Len(rows) = 2
    /\ Len(cells_to_update) = 48
    /\ calls.writes = 1

====
